---- MODULE Spec2Model ----
(***************************************************************************)
(* A model of .github/scripts/build_assets/filehandler.py: the five build  *)
(* helpers find_new_icons, get_svgs_paths, extract_files,                   *)
(* rename_extracted_files and create_screenshot_folder.                     *)
(*                                                                          *)
(* The helpers share no state: each gets its inputs as parameters.  Each   *)
(* has one variable holding its frame (parameters, locals, position) and   *)
(* the part of the filesystem it touches, and one specification            *)
(* (SpecDiff, SpecPaths, SpecExtract, SpecRename, SpecShot) that calls it  *)
(* on every input of a bounded set and runs it statement by statement.     *)
(*                                                                          *)
(* Strings the code inspects character by character (icon and entry names) *)
(* are sequences of one-character strings.                                 *)
(***************************************************************************)
EXTENDS Integers, Sequences, FiniteSets, TLC

VARIABLES diff, svgs, extract, rename, shot

vars == <<diff, svgs, extract, rename, shot>>

\* A frame of a helper that is not being run.
Idle == [pc |-> "idle"]

\* All sequences over S of length at most n.
SeqsUpTo(S, n) == UNION {[1..k -> S] : k \in 0..n}

(***************************************************************************)
(* find_new_icons / is_not_in_icomoon_json                                 *)
(***************************************************************************)

\* Bounds of the manifests the diff is run on.
MaxNameLen == 2
MaxEntryLen == 3
MaxIcons == 2
MaxEntries == 1

\* Characters of names: two letters, the dash, and the two characters of
\* the alphabet that re.compile reads as operators rather than literals.
Alphabet == {"a", "b", "-", ".", "|"}

IconNames == SeqsUpTo(Alphabet, MaxNameLen)
EntryNames == SeqsUpTo(Alphabet, MaxEntryLen)

\* devicon.json: an array of icon records.
DeviconJsons == SeqsUpTo([name : IconNames], MaxIcons)
\* icomoon.json: {"icons": [{"properties": {"name": ...}}, ...]}.
IcomoonJsons == [icons : SeqsUpTo([properties : [name : EntryNames]], MaxEntries)]

\* str.startswith
StartsWith(text, prefix) ==
    /\ Len(prefix) <= Len(text)
    /\ SubSeq(text, 1, Len(prefix)) = prefix

\* The f-string of line 39: "^", the icon's name as it is, "-".
PatternSource(icon) == <<"^">> \o icon.name \o <<"-">>

\* re.compile: "|" has the lowest precedence, so the pattern is the list of
\* its alternatives, each a sequence of atoms.
RECURSIVE Alternatives(_)
Alternatives(p) ==
    IF \A k \in 1..Len(p) : p[k] # "|"
    THEN <<p>>
    ELSE LET k == CHOOSE k \in 1..Len(p) :
                      p[k] = "|" /\ \A m \in 1..(k - 1) : p[m] # "|"
         IN <<SubSeq(p, 1, k - 1)>> \o Alternatives(SubSeq(p, k + 1, Len(p)))

\* One alternative matched against text from position pos: "^" matches
\* the empty string at the start of the text only (no MULTILINE flag), "."
\* matches any one character (the alphabet holds no newline), any other
\* character of the alphabet matches itself.
RECURSIVE MatchAt(_, _, _)
MatchAt(alt, text, pos) ==
    IF alt = <<>> THEN TRUE
    ELSE IF Head(alt) = "^" THEN pos = 1 /\ MatchAt(Tail(alt), text, pos)
    ELSE /\ pos <= Len(text)
         /\ (Head(alt) = "." \/ Head(alt) = text[pos])
         /\ MatchAt(Tail(alt), text, pos + 1)

\* Pattern.search: some alternative matches at some position of the text.
Search(pattern, text) ==
    \E k \in 1..Len(pattern) : \E pos \in 1..(Len(text) + 1) :
        MatchAt(pattern[k], text, pos)

is_not_in_icomoon_json(icon, icomoon_json) ==
    LET pattern == Alternatives(PatternSource(icon))
    IN \A k \in 1..Len(icomoon_json.icons) :
           ~Search(pattern, icomoon_json.icons[k].properties.name)

\* Lines 17-23: both manifests loaded, new_icons empty.
DiffCall(a, b) ==
    [pc |-> "loop", devicon_json |-> a, icomoon_json |-> b, i |-> 1,
     new_icons |-> <<>>]

\* Lines 24-26: one iteration of the loop over devicon_json.
DiffStep ==
    /\ diff.pc = "loop"
    /\ diff.i <= Len(diff.devicon_json)
    /\ LET icon == diff.devicon_json[diff.i]
       IN diff' = [diff EXCEPT
              !.i = @ + 1,
              !.new_icons = IF is_not_in_icomoon_json(icon, diff.icomoon_json)
                            THEN Append(@, icon) ELSE @]
    /\ UNCHANGED <<svgs, extract, rename, shot>>

\* Line 28.
DiffReturn ==
    /\ diff.pc = "loop"
    /\ diff.i > Len(diff.devicon_json)
    /\ diff' = [diff EXCEPT !.pc = "returned"]
    /\ UNCHANGED <<svgs, extract, rename, shot>>

InitDiff ==
    /\ \E a \in DeviconJsons : \E b \in IcomoonJsons : diff = DiffCall(a, b)
    /\ svgs = Idle /\ extract = Idle /\ rename = Idle /\ shot = Idle

NextDiff == DiffStep \/ DiffReturn

SpecDiff == InitDiff /\ [][NextDiff]_vars

\* The entry names of the published manifest.
PublishedNames(b) == {b.icons[k].properties.name : k \in 1..Len(b.icons)}

\* The spec's rule: a record is new iff no published name starts with "<name>-".
IsNewByPrefix(icon, b) ==
    \A e \in PublishedNames(b) : ~StartsWith(e, icon.name \o <<"-">>)

\* C1: when find_new_icons returns, its result is exactly the records of
\* devicon.json, in order, with nothing added or dropped, for which no
\* icomoon.json entry name starts with the string "<record.name>-".
C1_DiffIsPrefixFilter ==
    diff.pc = "returned" =>
        diff.new_icons =
            SelectSeq(diff.devicon_json,
                      LAMBDA icon : IsNewByPrefix(icon, diff.icomoon_json))

\* C2: when find_new_icons returns, a record is missing from the result only
\* if some entry name begins with "<name>-": an entry equal to the record's
\* name, or one such as "ab-" for the record "a", does not suppress it.
C2_PrefixBoundary ==
    diff.pc = "returned" =>
        \A k \in 1..Len(diff.devicon_json) :
            IsNewByPrefix(diff.devicon_json[k], diff.icomoon_json) =>
                \E m \in 1..Len(diff.new_icons) :
                    diff.new_icons[m] = diff.devicon_json[k]

\* For names of letters and dashes only the pattern is a literal, and the
\* diff is the prefix filter.
LiteralName(n) == \A k \in 1..Len(n) : n[k] \notin {".", "|"}
DiffIsPrefixFilterOnLiteralNames ==
    (/\ diff.pc = "returned"
     /\ \A k \in 1..Len(diff.devicon_json) : LiteralName(diff.devicon_json[k].name))
    => diff.new_icons =
           SelectSeq(diff.devicon_json,
                     LAMBDA icon : IsNewByPrefix(icon, diff.icomoon_json))

(***************************************************************************)
(* get_svgs_paths / is_alias                                               *)
(***************************************************************************)

\* The longest list of records get_svgs_paths is called on.
MaxNewIcons == 2

icons_folder_path == "icons"
SvgNames == {"a", "b"}
FontVersions == {"v1", "v2"}
FontLists == {<<"v1">>, <<"v1", "v2">>, <<"v2", "v1">>}
AliasLists == {<<>>, <<[alias |-> "v1"]>>, <<[alias |-> "v2"], [alias |-> "v1"]>>}

\* Records of devicon.json: the "aliases" key is there or not.
SvgRecords ==
    [name : SvgNames, versions : [font : FontLists]]
    \cup [name : SvgNames, versions : [font : FontLists], aliases : AliasLists]

\* Path(parent, child) and str() of it, for names without separators.
JoinPath(parent, child) == parent \o "/" \o child

\* Line 74.
SvgFileName(name, font_version) == name \o "-" \o font_version \o ".svg"

\* The icons folder as the call finds it: each icon's subfolder is missing,
\* a regular file, or a directory holding some of the icon's SVG files.
SvgFolderStates(name) ==
    LET folder == JoinPath(icons_folder_path, name)
    IN {[entries |-> {}, dirs |-> {}], [entries |-> {folder}, dirs |-> {}]}
       \cup {[entries |-> {folder} \cup {JoinPath(folder, SvgFileName(name, v)) : v \in vs},
              dirs |-> {folder}] : vs \in SUBSET FontVersions}

SvgFilesystems ==
    {[entries |-> fa.entries \cup fb.entries, dirs |-> fa.dirs \cup fb.dirs] :
        fa \in SvgFolderStates("a"), fb \in SvgFolderStates("b")}

\* Path.is_dir and Path.exists
IsDir(fs, path) == path \in fs.dirs
Exists(fs, path) == path \in fs.entries

\* A mutant of is_alias: only the first alias is compared.
is_alias_first_only(font_version, aliases) ==
    aliases # <<>> /\ font_version = aliases[1].alias

is_alias(font_version, aliases) ==
    \E k \in 1..Len(aliases) : font_version = aliases[k].alias

\* Lines 63-66: the aliases of a record, empty when the key is missing.
AliasesOf(icon_info) ==
    IF "aliases" \in DOMAIN icon_info THEN icon_info.aliases ELSE <<>>

\* Line 55. probed lists the paths handed to is_dir and exists so far.
SvgsCall(icons, fs) ==
    [pc |-> "record", new_icons |-> icons, fs |-> fs, i |-> 1, j |-> 1,
     aliases |-> <<>>, file_paths |-> <<>>, probed |-> <<>>, result |-> "none"]

\* Lines 56-66: the head of the outer loop for record i.
SvgsEnterRecord(f) ==
    LET icon_info == f.new_icons[f.i]
        folder_path == JoinPath(icons_folder_path, icon_info.name)
        g == [f EXCEPT !.probed = Append(@, folder_path)]
    IN IF ~IsDir(f.fs, folder_path)
       THEN [g EXCEPT !.pc = "raised"]
       ELSE [g EXCEPT !.pc = "version", !.j = 1, !.aliases = AliasesOf(icon_info)]

\* A mutant of SvgsVersion: a missing file is skipped, not raised.
SvgsVersionSkipsMissing(f) ==
    LET icon_info == f.new_icons[f.i]
        font_version == icon_info.versions.font[f.j]
        folder_path == JoinPath(icons_folder_path, icon_info.name)
        path == JoinPath(folder_path, SvgFileName(icon_info.name, font_version))
        g == [f EXCEPT !.probed = Append(@, path)]
    IN IF is_alias(font_version, f.aliases)
       THEN [f EXCEPT !.j = @ + 1]
       ELSE IF Exists(f.fs, path)
       THEN [g EXCEPT !.j = @ + 1, !.file_paths = Append(@, path)]
       ELSE [g EXCEPT !.j = @ + 1]

\* Lines 68-80: one iteration of the inner loop, for font version j.
SvgsVersion(f) ==
    LET icon_info == f.new_icons[f.i]
        font_version == icon_info.versions.font[f.j]
        folder_path == JoinPath(icons_folder_path, icon_info.name)
        path == JoinPath(folder_path, SvgFileName(icon_info.name, font_version))
        g == [f EXCEPT !.probed = Append(@, path)]
    IN IF is_alias(font_version, f.aliases)
       THEN [f EXCEPT !.j = @ + 1]
       ELSE IF Exists(f.fs, path)
       THEN [g EXCEPT !.j = @ + 1, !.file_paths = Append(@, path)]
       ELSE [g EXCEPT !.pc = "raised"]

SvgsRecordStep ==
    /\ svgs.pc = "record"
    /\ svgs.i <= Len(svgs.new_icons)
    /\ svgs' = SvgsEnterRecord(svgs)
    /\ UNCHANGED <<diff, extract, rename, shot>>

SvgsVersionStep ==
    /\ svgs.pc = "version"
    /\ svgs.j <= Len(svgs.new_icons[svgs.i].versions.font)
    /\ svgs' = SvgsVersion(svgs)
    /\ UNCHANGED <<diff, extract, rename, shot>>

\* The inner loop is exhausted: on to the next record.
SvgsNextRecord ==
    /\ svgs.pc = "version"
    /\ svgs.j > Len(svgs.new_icons[svgs.i].versions.font)
    /\ svgs' = [svgs EXCEPT !.pc = "record", !.i = @ + 1]
    /\ UNCHANGED <<diff, extract, rename, shot>>

\* Line 82.
SvgsReturn ==
    /\ svgs.pc = "record"
    /\ svgs.i > Len(svgs.new_icons)
    /\ svgs' = [svgs EXCEPT !.pc = "returned", !.result = svgs.file_paths]
    /\ UNCHANGED <<diff, extract, rename, shot>>

InitPaths ==
    /\ \E icons \in SeqsUpTo(SvgRecords, MaxNewIcons) : \E fs \in SvgFilesystems :
           svgs = SvgsCall(icons, fs)
    /\ diff = Idle /\ extract = Idle /\ rename = Idle /\ shot = Idle

NextPaths == SvgsRecordStep \/ SvgsVersionStep \/ SvgsNextRecord \/ SvgsReturn

SpecPaths == InitPaths /\ [][NextPaths]_vars

\* The alias names of a record, none when it has no "aliases" key.
AliasNames(rec) ==
    IF "aliases" \in DOMAIN rec
    THEN {rec.aliases[k].alias : k \in 1..Len(rec.aliases)}
    ELSE {}

\* <icons_folder>/<name>/<name>-<version>.svg
SvgPathOf(name, v) ==
    icons_folder_path \o "/" \o name \o "/" \o name \o "-" \o v \o ".svg"

\* The paths of the non-aliased font versions of a record, in version order.
RECURSIVE PathsOfVersions(_, _)
PathsOfVersions(rec, font) ==
    IF font = <<>> THEN <<>>
    ELSE (IF Head(font) \in AliasNames(rec) THEN <<>>
          ELSE <<SvgPathOf(rec.name, Head(font))>>)
         \o PathsOfVersions(rec, Tail(font))

\* ... of every record, in record order.
RECURSIVE ExpectedPaths(_)
ExpectedPaths(icons) ==
    IF icons = <<>> THEN <<>>
    ELSE PathsOfVersions(Head(icons), Head(icons).versions.font)
         \o ExpectedPaths(Tail(icons))

SvgFolders == {icons_folder_path \o "/" \o n : n \in SvgNames}

\* C3: when get_svgs_paths returns, its result is exactly the paths
\* <icons_folder>/<name>/<name>-<version>.svg of the font versions that are
\* no alias of their record (no aliases key: no alias), in record order and
\* then version order; and it never raises at an aliased version.
C3_PathsOfNonAliasedVersions ==
    /\ svgs.pc = "returned" => svgs.result = ExpectedPaths(svgs.new_icons)
    /\ (svgs.pc = "raised" /\ svgs.probed[Len(svgs.probed)] \notin SvgFolders) =>
           LET rec == svgs.new_icons[svgs.i]
           IN rec.versions.font[svgs.j] \notin AliasNames(rec)

\* A normal return of two paths or more, over a record without the aliases
\* key and a record with an aliased version whose SVG file does not exist.
C3_Witness ==
    /\ svgs.pc = "returned"
    /\ Len(svgs.result) >= 2
    /\ \E k \in 1..Len(svgs.new_icons) : "aliases" \notin DOMAIN svgs.new_icons[k]
    /\ \E k \in 1..Len(svgs.new_icons) :
           LET rec == svgs.new_icons[k]
           IN \E m \in 1..Len(rec.versions.font) :
                  /\ rec.versions.font[m] \in AliasNames(rec)
                  /\ SvgPathOf(rec.name, rec.versions.font[m]) \notin svgs.fs.entries

\* What get_svgs_paths needs of a path it looks at: a subfolder is a
\* directory, an SVG file exists.
ProbeOk(fs, path) ==
    IF path \in SvgFolders THEN path \in fs.dirs ELSE path \in fs.entries

\* C4: get_svgs_paths raises at the first subfolder that is no directory or
\* non-aliased version whose file is absent: every path it looked at before
\* was fine, it looks at nothing after, and it returns no list.
C4_RaisesAtFirstMissing ==
    LET n == Len(svgs.probed)
    IN svgs.pc # "idle" =>
        /\ \A k \in 1..(n - 1) : ProbeOk(svgs.fs, svgs.probed[k])
        /\ svgs.pc = "raised" <=> (n > 0 /\ ~ProbeOk(svgs.fs, svgs.probed[n]))
        /\ svgs.pc = "raised" => svgs.result = "none"
        /\ svgs.pc = "returned" => svgs.result = svgs.file_paths

\* A raise at a missing file after a path was collected, a record left.
C4_Witness ==
    /\ svgs.pc = "raised"
    /\ svgs.file_paths # <<>>
    /\ svgs.i < Len(svgs.new_icons)
    /\ svgs.probed[Len(svgs.probed)] \notin SvgFolders

(***************************************************************************)
(* extract_files                                                           *)
(***************************************************************************)

\* Lines 111-113.
target_files ==
    <<"selection.json", "fonts/", "fonts/devicon.ttf", "fonts/devicon.woff",
      "fonts/devicon.eot", "fonts/devicon.svg", "style.css">>

TargetSet == {target_files[k] : k \in 1..Len(target_files)}

\* The names under extract_path the entries are written to: a directory
\* entry's name without its slash.
FontFiles == {"fonts/devicon.ttf", "fonts/devicon.woff", "fonts/devicon.eot",
              "fonts/devicon.svg"}
DestNames == {"selection.json", "style.css", "fonts"} \cup FontFiles

\* The destination as a call finds it: empty, holding a previous run's
\* files, or with a regular file where the fonts directory goes.
DestEmpty == [n \in DestNames |-> "absent"]
DestStale == [n \in DestNames |-> IF n = "fonts" THEN "dir" ELSE "file"]
DestFontsIsFile == [DestEmpty EXCEPT !["fonts"] = "file"]
DestStates == {DestEmpty, DestStale, DestFontsIsFile}

\* Line 110, up to the loop: ZipFile(zip_path) opens the archive, or raises
\* when there is no file at zip_path. archive is the set of entry names.
ExtractCall(zip_exists, archive, dest, delete) ==
    [pc |-> IF zip_exists THEN "loop" ELSE "raised",
     zip_exists |-> zip_exists, archive |-> archive, dest |-> dest,
     delete |-> delete, handle |-> IF zip_exists THEN "open" ELSE "none",
     k |-> 1, removed_while |-> "never"]

\* ZipFile.extract of a member that is in the archive: a directory member is
\* created unless it is there, a file member is written over what is there.
\* Not ok when the filesystem refuses (FileExistsError, NotADirectoryError,
\* IsADirectoryError).
ExtractMember(dest, file) ==
    LET Ok(d) == [ok |-> TRUE, dest |-> d]
        Error == [ok |-> FALSE, dest |-> dest]
    IN IF file = "fonts/"
       THEN IF dest["fonts"] = "dir" THEN Ok(dest)
            ELSE IF dest["fonts"] = "absent" THEN Ok([dest EXCEPT !["fonts"] = "dir"])
            ELSE Error
       ELSE IF file \in FontFiles /\ dest["fonts"] = "file" THEN Error
       ELSE IF dest[file] = "dir" THEN Error
       ELSE IF file \in FontFiles
       THEN Ok([dest EXCEPT !["fonts"] = "dir", ![file] = "file"])
       ELSE Ok([dest EXCEPT ![file] = "file"])

\* A mutant of ExtractEntry: an entry missing from the archive is skipped.
ExtractEntrySkipsMissing(f) ==
    LET file == target_files[f.k]
    IN IF file \notin f.archive
       THEN [f EXCEPT !.k = @ + 1]
       ELSE LET d == ExtractMember(f.dest, file)
            IN IF ~d.ok THEN [f EXCEPT !.pc = "raised"]
               ELSE [f EXCEPT !.k = @ + 1, !.dest = d.dest]

\* Lines 114-115: one iteration; KeyError when the entry is not in the
\* archive. An exception leaves the function with the handle as it is.
ExtractEntry(f) ==
    LET file == target_files[f.k]
    IN IF file \notin f.archive
       THEN [f EXCEPT !.pc = "raised"]
       ELSE LET d == ExtractMember(f.dest, file)
            IN IF ~d.ok THEN [f EXCEPT !.pc = "raised"]
               ELSE [f EXCEPT !.k = @ + 1, !.dest = d.dest]

\* Lines 119-122: with delete, close the handle and then remove the
\* archive; removed_while records the handle's state at the os.remove.
ExtractFinish(f) ==
    IF f.delete
    THEN [f EXCEPT !.pc = "returned", !.handle = "closed", !.zip_exists = FALSE,
                   !.removed_while = "closed"]
    ELSE [f EXCEPT !.pc = "returned"]

ExtractStep ==
    /\ extract.pc = "loop"
    /\ extract.k <= Len(target_files)
    /\ extract' = ExtractEntry(extract)
    /\ UNCHANGED <<diff, svgs, rename, shot>>

ExtractDone ==
    /\ extract.pc = "loop"
    /\ extract.k > Len(target_files)
    /\ extract' = ExtractFinish(extract)
    /\ UNCHANGED <<diff, svgs, rename, shot>>

\* After the call the ZipFile object is garbage: the interpreter may
\* finalise it, which closes the handle, at any time or never.
ExtractFinalize ==
    /\ extract.pc \in {"returned", "raised"}
    /\ extract.handle = "open"
    /\ extract' = [extract EXCEPT !.handle = "closed"]
    /\ UNCHANGED <<diff, svgs, rename, shot>>

InitExtract ==
    /\ \E zip_exists \in BOOLEAN : \E archive \in SUBSET TargetSet :
       \E dest \in DestStates : \E delete \in BOOLEAN :
           /\ (~zip_exists => archive = {})
           /\ extract = ExtractCall(zip_exists, archive, dest, delete)
    /\ diff = Idle /\ svgs = Idle /\ rename = Idle /\ shot = Idle

NextExtract == ExtractStep \/ ExtractDone \/ ExtractFinalize

SpecExtract == InitExtract /\ [][NextExtract]_vars

ExtractOver == extract.pc \in {"returned", "raised"}

\* C5: when extract_files completes on an archive holding all seven
\* entries, selection.json, style.css and the four font files are at the
\* destination, and the archive file is gone iff delete is true; when an
\* entry is missing from the archive the call fails and the archive stays.
C5_ExtractedAndDeleted ==
    /\ (extract.pc = "returned" /\ TargetSet \subseteq extract.archive) =>
           /\ \A n \in {"selection.json", "style.css"} \cup FontFiles :
                  extract.dest[n] = "file"
           /\ extract.zip_exists = ~extract.delete
    /\ (ExtractOver /\ extract.handle # "none"
            /\ ~(TargetSet \subseteq extract.archive)) =>
           extract.pc = "raised" /\ extract.zip_exists

\* A completed extraction that deleted the archive.
C5_Witness ==
    /\ extract.pc = "returned"
    /\ TargetSet \subseteq extract.archive
    /\ extract.delete
    /\ ~extract.zip_exists

\* C6: the archive handle is released on every exit path of extract_files:
\* closed before the os.remove, closed at the return without delete, closed
\* when an entry's extraction raises.
C6_HandleReleased ==
    /\ extract.pc \in {"returned", "raised"} => extract.handle # "open"
    /\ extract.pc # "idle" => extract.removed_while # "open"

(***************************************************************************)
(* rename_extracted_files                                                  *)
(***************************************************************************)

\* Lines 133-142.
old_to_new_list ==
    <<[old |-> "selection.json", new |-> "icomoon.json"],
      [old |-> "style.css", new |-> "devicon.css"]>>

RenameNames == {"selection.json", "icomoon.json", "style.css", "devicon.css"}

\* What a name of extract_path holds: nothing, or a regular file with one of
\* two contents.
FileStates == {"absent", "x", "y"}

\* A mutant of OsReplace: the file is copied, the old name stays.
OsReplaceCopies(dir, old, new) ==
    IF dir[old] = "absent" THEN [ok |-> FALSE, dir |-> dir]
    ELSE [ok |-> TRUE, dir |-> [dir EXCEPT ![new] = dir[old]]]

\* os.replace on regular files: FileNotFoundError when old is absent, else
\* new holds old's content, over whatever it held, and old is gone.
OsReplace(dir, old, new) ==
    IF dir[old] = "absent" THEN [ok |-> FALSE, dir |-> dir]
    ELSE [ok |-> TRUE, dir |-> [dir EXCEPT ![new] = dir[old], ![old] = "absent"]]

\* dir0 keeps the directory as the call found it.
RenameCall(dir) == [pc |-> "loop", k |-> 1, dir |-> dir, dir0 |-> dir]

\* A mutant of RenameOne: a pair whose old file is absent is skipped.
RenameOneSkipsMissing(f) ==
    LET r == OsReplace(f.dir, old_to_new_list[f.k].old, old_to_new_list[f.k].new)
    IN [f EXCEPT !.k = @ + 1, !.dir = r.dir]

\* Lines 144-145: one iteration; the error of os.replace is not caught.
RenameOne(f) ==
    LET r == OsReplace(f.dir, old_to_new_list[f.k].old, old_to_new_list[f.k].new)
    IN IF r.ok THEN [f EXCEPT !.k = @ + 1, !.dir = r.dir]
       ELSE [f EXCEPT !.pc = "raised"]

RenameStep ==
    /\ rename.pc = "loop"
    /\ rename.k <= Len(old_to_new_list)
    /\ rename' = RenameOne(rename)
    /\ UNCHANGED <<diff, svgs, extract, shot>>

\* Line 147 and the return.
RenameReturn ==
    /\ rename.pc = "loop"
    /\ rename.k > Len(old_to_new_list)
    /\ rename' = [rename EXCEPT !.pc = "returned"]
    /\ UNCHANGED <<diff, svgs, extract, shot>>

InitRename ==
    /\ \E dir \in [RenameNames -> FileStates] : rename = RenameCall(dir)
    /\ diff = Idle /\ svgs = Idle /\ extract = Idle /\ shot = Idle

NextRename == RenameStep \/ RenameReturn

SpecRename == InitRename /\ [][NextRename]_vars

RenameOver == rename.pc \in {"returned", "raised"}

\* C7: rename_extracted_files raises whenever selection.json or style.css
\* is absent; with both there it returns, icomoon.json and devicon.css
\* exist and selection.json and style.css do not.
C7_RenameRaisesOrRenames ==
    RenameOver =>
        /\ rename.pc = "raised" <=>
               (rename.dir0["selection.json"] = "absent"
                \/ rename.dir0["style.css"] = "absent")
        /\ rename.pc = "returned" =>
               /\ rename.dir["icomoon.json"] # "absent"
               /\ rename.dir["devicon.css"] # "absent"
               /\ rename.dir["selection.json"] = "absent"
               /\ rename.dir["style.css"] = "absent"

\* The call raised over a missing style.css, selection.json being there.
C7_Witness ==
    /\ rename.pc = "raised"
    /\ rename.dir0["selection.json"] # "absent"
    /\ rename.dir0["style.css"] = "absent"

\* C10 as claimed: when rename_extracted_files raises, the directory is
\* exactly as the call found it.
C10_AllOrNothing == rename.pc = "raised" => rename.dir = rename.dir0

\* C10 as amended: when it raises over a missing selection.json the
\* directory is as the call found it; when it raises over a missing
\* style.css, selection.json is already renamed: icomoon.json holds its
\* content, selection.json is gone, the rest is as it was.
C10_FirstRenameStays ==
    rename.pc = "raised" =>
        rename.dir =
            IF rename.dir0["selection.json"] = "absent" THEN rename.dir0
            ELSE [rename.dir0 EXCEPT !["icomoon.json"] = rename.dir0["selection.json"],
                                     !["selection.json"] = "absent"]

\* A raise that left selection.json renamed over a different icomoon.json.
C10_Witness ==
    /\ rename.pc = "raised"
    /\ rename.dir0["selection.json"] = "x"
    /\ rename.dir0["icomoon.json"] = "y"
    /\ rename.dir["icomoon.json"] = "x"

(***************************************************************************)
(* create_screenshot_folder                                                *)
(***************************************************************************)

\* The most calls made in a row with the same arguments.
MaxCalls == 3

\* The paths of the filesystem the calls see. /w/out is a directory, /w/f a
\* regular file, /w/missing does not exist, /w/link is a symbolic link to
\* /w/out.
ShotPaths == {"/w/out", "/w/f", "/w/missing", "/w/out/screenshots",
              "/w/out/a", "/w/out/a/b"}
ShotDirArgs == {"/w/out", "/w/link", "/w/f", "/w/missing"}

\* screenshot_name: its components, and whether it ends in a slash.
ShotNames == {[parts |-> <<"screenshots">>, slash |-> TRUE],
              [parts |-> <<"a", "b">>, slash |-> FALSE]}

ShotParent(path) ==
    CASE path = "/w/out/a/b" -> "/w/out/a"
      [] path \in {"/w/out/screenshots", "/w/out/a"} -> "/w/out"
      [] OTHER -> "/w"

\* The filesystems a first call may find: under /w/out each name is absent,
\* a regular file or a directory, and only a directory has anything in it.
ShotFilesystems ==
    {fs \in [ShotPaths -> {"absent", "file", "dir"}] :
        /\ fs["/w/out"] = "dir" /\ fs["/w/f"] = "file" /\ fs["/w/missing"] = "absent"
        /\ fs["/w/out/a"] # "dir" => fs["/w/out/a/b"] = "absent"}

\* Path(dir).resolve(): the absolute path with symbolic links followed; a
\* path that does not exist resolves to itself (resolve is not strict).
Resolve(dir) == IF dir = "/w/link" THEN "/w/out" ELSE dir

\* Path(folder, screenshot_name): the components joined by single slashes;
\* a trailing slash of the name is dropped.
RECURSIVE JoinParts(_, _)
JoinParts(folder, parts) ==
    IF parts = <<>> THEN folder
    ELSE JoinParts(folder \o "/" \o Head(parts), Tail(parts))

\* os.mkdir: the error it raises, or "none" and the directory made.
OsMkdir(fs, path) ==
    LET parent == ShotParent(path)
    IN IF fs[parent] = "absent" THEN [err |-> "FileNotFoundError", fs |-> fs]
       ELSE IF fs[parent] = "file" THEN [err |-> "NotADirectoryError", fs |-> fs]
       ELSE IF fs[path] # "absent" THEN [err |-> "FileExistsError", fs |-> fs]
       ELSE [err |-> "none", fs |-> [fs EXCEPT ![path] = "dir"]]

\* A mutant of MkdirOutcome: no try statement, every error of os.mkdir
\* leaves the function.
MkdirOutcomeUncaught(err, screenshot_folder) ==
    IF err = "none" THEN screenshot_folder ELSE "raised"

\* Lines 163-168: what the try statement makes of os.mkdir's error. The
\* except clause handles FileExistsError; the return in the finally clause
\* runs on every path and discards any exception still in flight.
MkdirOutcome(err, screenshot_folder) ==
    LET in_flight == IF err \in {"none", "FileExistsError"} THEN "none" ELSE err
        finally_return == screenshot_folder
    IN finally_return

\* Lines 158-168: the filesystem after the call, and the string returned or
\* "raised".
create_screenshot_folder(fs, dir, screenshot_name) ==
    LET folder == Resolve(dir)
    IN IF fs[folder] # "dir" THEN [fs |-> fs, outcome |-> "raised"]
       ELSE LET screenshot_folder == JoinParts(folder, screenshot_name.parts)
                made == OsMkdir(fs, screenshot_folder)
            IN [fs |-> made.fs,
                outcome |-> MkdirOutcome(made.err, screenshot_folder)]

\* outcomes and fs_after list what each call so far returned and left.
ShotStart(fs, dir, screenshot_name) ==
    [pc |-> "calling", fs |-> fs, dir |-> dir, screenshot_name |-> screenshot_name,
     outcomes |-> <<>>, fs_after |-> <<>>]

\* One more call with the same arguments.
ShotCall ==
    /\ shot.pc = "calling"
    /\ Len(shot.outcomes) < MaxCalls
    /\ LET r == create_screenshot_folder(shot.fs, shot.dir, shot.screenshot_name)
       IN shot' = [shot EXCEPT !.fs = r.fs,
                               !.outcomes = Append(@, r.outcome),
                               !.fs_after = Append(@, r.fs)]
    /\ UNCHANGED <<diff, svgs, extract, rename>>

InitShot ==
    /\ \E fs \in ShotFilesystems : \E dir \in ShotDirArgs : \E name \in ShotNames :
           shot = ShotStart(fs, dir, name)
    /\ diff = Idle /\ svgs = Idle /\ extract = Idle /\ rename = Idle

NextShot == ShotCall

SpecShot == InitShot /\ [][NextShot]_vars

\* The subfolder path a call on an existing base directory is to return.
ExpectedShotPath(dir, screenshot_name) ==
    IF screenshot_name.parts = <<"screenshots">> THEN "/w/out/screenshots"
    ELSE "/w/out/a/b"

\* C8: on an existing base directory every call in a row returns the same
\* resolved subfolder path and none raises, and the filesystem after the
\* second and later calls is the filesystem after the first; on a base that
\* is a regular file or does not exist every call raises.
C8_Idempotent ==
    shot.pc = "calling" =>
        \A k \in 1..Len(shot.outcomes) :
            IF shot.dir \in {"/w/out", "/w/link"}
            THEN /\ shot.outcomes[k] = ExpectedShotPath(shot.dir, shot.screenshot_name)
                 /\ shot.fs_after[k] = shot.fs_after[1]
            ELSE shot.outcomes[k] = "raised"

\* Three calls through the symbolic link, the first of which made the folder.
C8_Witness ==
    /\ shot.pc = "calling"
    /\ shot.dir = "/w/link"
    /\ Len(shot.outcomes) >= 3
    /\ shot.fs_after[1]["/w/out/screenshots"] = "dir"
    /\ shot.outcomes[3] = "/w/out/screenshots"

\* C9: whenever create_screenshot_folder returns a path, a directory exists
\* at that path.
C9_ReturnedPathIsDirectory ==
    shot.pc = "calling" =>
        \A k \in 1..Len(shot.outcomes) :
            shot.outcomes[k] # "raised" => shot.fs_after[k][shot.outcomes[k]] = "dir"

====
